---- MODULE Spec2Model ----
(***************************************************************************)
(* Qdrant Sync MCP server (src/server.py): the Store Client helpers, the   *)
(* Sync Driver, the Log Reader and the call_tool dispatcher, all run by    *)
(* one asyncio event loop.  A call_tool coroutine gives the loop back only *)
(* at an `await`; run_sync_script is a plain blocking call                 *)
(* (subprocess.run), so nothing else runs while a sync child is awaited.   *)
(***************************************************************************)
EXTENDS Integers, Sequences, FiniteSets, TLC

VARIABLES
    qdrant,     \* url -> endpoint: how it answers GET /collections and /collections/{name}
    logFiles,   \* the qdrant-sync-<n>.log files in LOG_DIR, by the number in their name
    clock,      \* what datetime.now() returns
    pc,         \* task -> where the call_tool coroutine of its request stands
    req,        \* task -> the request (name, arguments) it serves
    frame,      \* task -> the local variables that live across an await
    resp,       \* task -> the JSON payload returned for the request
    calls,      \* task -> the commands run_sync_script was asked to run for the request
    child,      \* task -> the child process launched for the request
    prev,       \* history: task -> its previous read-only call, made in the same quiet period
    clean       \* history: task -> no endpoint changed since its request was submitted

vars == <<qdrant, logFiles, clock, pc, req, frame, resp, calls, child, prev, clean>>
envVars == <<qdrant, logFiles>>
histVars == <<prev, clean>>

-----------------------------------------------------------------------------
(* Bounds and input domains *)

MaxLogFiles == 12                   \* log files that may exist in LOG_DIR
MaxClock == 2                       \* instants datetime.now() tells apart
Tasks == {"t1", "t2"}               \* requests the server may hold at once
Names == {"A", "B", "C"}            \* collection names
NameOrder == <<"A", "B", "C">>      \* the names in Python's string order
ListingOrder == <<"C", "A", "B">>   \* the order an endpoint lists its collections in
PointVals == {0, 3, 5, 10}          \* points_count values
CountVals == (0 - 2) .. MaxLogFiles \* `count` arguments of qdrant_sync_logs
MutableNames == {"A"}               \* collections written while calls are compared

None == "None"
Get(d, k, default) == IF k \in DOMAIN d THEN d[k] ELSE default
Min(a, b) == IF a <= b THEN a ELSE b
Max(a, b) == IF a >= b THEN a ELSE b

-----------------------------------------------------------------------------
(* Configuration *)

SYNC_SCRIPT == "sync-qdrant-to-vps.sh"
SYNC_SCRIPT_REVERSE == "sync-qdrant-from-vps.sh"
SOURCE_REST_URL == "http://localhost:6335"
TARGET_REST_URL == "http://74.50.49.35:6333"
Urls == {SOURCE_REST_URL, TARGET_REST_URL}

-----------------------------------------------------------------------------
(* The two Qdrant endpoints, as the HTTP client sees them *)

ConnStates == {"ok", "http_error", "down"}  \* GET /collections: 200, another status, no answer
Absent == [kind |-> "absent"]               \* no such collection: not listed, stat is 404
Faulty == [kind |-> "fault"]                \* listed, but GET /collections/{name} is not 200
Holding(p) == [kind |-> "ok", points |-> p]
CollStates == {Absent, Faulty} \cup {Holding(p) : p \in PointVals}
Endpoints == [conn : ConnStates, colls : [Names -> CollStates]]

Rank(name) == CHOOSE i \in 1..Len(NameOrder) : NameOrder[i] = name

RECURSIVE sorted(_)
sorted(S) ==
    IF S = {} THEN <<>>
    ELSE LET m == CHOOSE x \in S : \A y \in S : Rank(x) <= Rank(y)
         IN <<m>> \o sorted(S \ {m})

Listing(ep) == SelectSeq(ListingOrder, LAMBDA n : ep.colls[n].kind # "absent")

\* The probe stamping its own report with the time it was made.
check_qdrant_connectivity_stamped(url) ==
    LET ep == qdrant[url] IN
    IF ep.conn = "ok"
    THEN [status |-> "connected", url |-> url, checked_at |-> clock,
          collection_count |-> Len(Listing(ep)), collections |-> Listing(ep)]
    ELSE IF ep.conn = "http_error"
    THEN [status |-> "error", url |-> url, checked_at |-> clock, error |-> "HTTP 500"]
    ELSE [status |-> "unreachable", url |-> url, checked_at |-> clock,
          error |-> "ConnectError"]

check_qdrant_connectivity(url) ==
    LET ep == qdrant[url] IN
    IF ep.conn = "ok"
    THEN [status |-> "connected", url |-> url,
          collection_count |-> Len(Listing(ep)), collections |-> Listing(ep)]
    ELSE IF ep.conn = "http_error"
    THEN [status |-> "error", url |-> url, error |-> "HTTP 500"]
    ELSE [status |-> "unreachable", url |-> url, error |-> "ConnectError"]

get_collection_info(url, name) ==
    LET ep == qdrant[url] IN
    IF ep.conn = "down"
    THEN [name |-> name, error |-> "ConnectError"]
    ELSE IF ep.colls[name].kind = "ok"
    THEN [name |-> name, status |-> "green", points_count |-> ep.colls[name].points]
    ELSE [name |-> name,
          error |-> IF ep.colls[name].kind = "absent" THEN "HTTP 404" ELSE "HTTP 500"]

sorted_by_name(collections) ==
    LET names == sorted({collections[i].name : i \in DOMAIN collections})
    IN [i \in 1..Len(names) |->
           collections[CHOOSE j \in DOMAIN collections : collections[j].name = names[i]]]

\* The probe's status ignored: whatever the endpoint lists is fetched.
get_all_collections_unprobed(url) ==
    LET listed == Listing(qdrant[url])
    IN sorted_by_name([i \in 1..Len(listed) |-> get_collection_info(url, listed[i])])

get_all_collections_with_counts(url) ==
    LET conn == check_qdrant_connectivity(url) IN
    IF conn.status # "connected" THEN <<>>
    ELSE LET listed == Get(conn, "collections", <<>>)
         IN sorted_by_name([i \in 1..Len(listed) |-> get_collection_info(url, listed[i])])

-----------------------------------------------------------------------------
(* qdrant_compare_collections: the all-collections branch *)

by_name(collections) ==
    [n \in {collections[i].name : i \in DOMAIN collections} |->
        collections[CHOOSE i \in DOMAIN collections : collections[i].name = n]]

missing_info == [points_count |-> 0, missing |-> TRUE]

lookup(dict, name) == IF name \in DOMAIN dict THEN dict[name] ELSE missing_info

\* Only the counts compared: a side that lacks the collection counts as 0 points.
in_sync_counts_only(local_info, vps_info) ==
    Get(local_info, "points_count", 0) = Get(vps_info, "points_count", 0)

\* A side whose stat call failed never counts as in sync.
in_sync_without_errors(local_info, vps_info) ==
    /\ Get(local_info, "points_count", 0) = Get(vps_info, "points_count", 0)
    /\ ~Get(local_info, "missing", FALSE)
    /\ ~Get(vps_info, "missing", FALSE)
    /\ "error" \notin DOMAIN local_info /\ "error" \notin DOMAIN vps_info

in_sync_all(local_info, vps_info) ==
    /\ Get(local_info, "points_count", 0) = Get(vps_info, "points_count", 0)
    /\ ~Get(local_info, "missing", FALSE)
    /\ ~Get(vps_info, "missing", FALSE)

\* The two flags taken from the wrong side.
local_only_swapped(local_info, vps_info) == Get(local_info, "missing", FALSE)

local_only(local_info, vps_info) == Get(vps_info, "missing", FALSE)

vps_only(local_info, vps_info) == Get(local_info, "missing", FALSE)

compare_entry(name, local_info, vps_info) ==
    [name |-> name,
     local_points |-> Get(local_info, "points_count", 0),
     vps_points |-> Get(vps_info, "points_count", 0),
     difference |-> Get(local_info, "points_count", 0) - Get(vps_info, "points_count", 0),
     in_sync |-> in_sync_all(local_info, vps_info),
     local_only |-> local_only(local_info, vps_info),
     vps_only |-> vps_only(local_info, vps_info)]

count_out_of_sync(out_of_sync, entry) ==
    IF ~entry.in_sync THEN out_of_sync + 1 ELSE out_of_sync

\* The `for name in sorted(all_names)` loop, one iteration per call.
RECURSIVE compare_loop(_, _, _, _)
compare_loop(names, local_dict, vps_dict, acc) ==
    IF names = <<>> THEN acc
    ELSE LET entry == compare_entry(Head(names), lookup(local_dict, Head(names)),
                                    lookup(vps_dict, Head(names)))
         IN compare_loop(Tail(names), local_dict, vps_dict,
                [comparison |-> Append(acc.comparison, entry),
                 total_local_points |-> acc.total_local_points + entry.local_points,
                 total_vps_points |-> acc.total_vps_points + entry.vps_points,
                 out_of_sync |-> count_out_of_sync(acc.out_of_sync, entry)])

\* The subtraction turned round.
total_difference_reversed(total_local_points, total_vps_points) ==
    total_vps_points - total_local_points

total_difference(total_local_points, total_vps_points) ==
    total_local_points - total_vps_points

compare_all(local_collections, vps_collections, now) ==
    LET local_dict == by_name(local_collections)
        vps_dict == by_name(vps_collections)
        all_names == DOMAIN local_dict \cup DOMAIN vps_dict
        acc == compare_loop(sorted(all_names), local_dict, vps_dict,
                   [comparison |-> <<>>, total_local_points |-> 0,
                    total_vps_points |-> 0, out_of_sync |-> 0])
    IN [timestamp |-> now,
        summary |-> [total_collections |-> Cardinality(all_names),
                     local_collections |-> Cardinality(DOMAIN local_dict),
                     vps_collections |-> Cardinality(DOMAIN vps_dict),
                     out_of_sync |-> acc.out_of_sync,
                     total_local_points |-> acc.total_local_points,
                     total_vps_points |-> acc.total_vps_points,
                     total_difference |-> total_difference(acc.total_local_points,
                                                           acc.total_vps_points)],
        collections |-> acc.comparison]

(* qdrant_compare_collections: the single-collection branch *)
compare_one(collection_name, local_info, vps_info) ==
    [collection |-> collection_name,
     local |-> local_info,
     vps |-> vps_info,
     in_sync |-> Get(local_info, "points_count", 0) = Get(vps_info, "points_count", 0),
     difference |-> Get(local_info, "points_count", 0) - Get(vps_info, "points_count", 0)]

(* qdrant_sync_status *)
sync_ready(local_status, vps_status) ==
    local_status.status = "connected" /\ vps_status.status = "connected"

status_report(local_status, vps_status, now) ==
    [timestamp |-> now,
     local |-> local_status,
     vps |-> vps_status,
     sync_ready |-> sync_ready(local_status, vps_status)]

-----------------------------------------------------------------------------
(* Log Reader *)

MAX_LOG_COUNT == 10
DEFAULT_LOG_COUNT == 3

RECURSIVE sorted_reverse(_)
sorted_reverse(S) ==
    IF S = {} THEN <<>>
    ELSE LET m == CHOOSE x \in S : \A y \in S : y <= x
         IN <<m>> \o sorted_reverse(S \ {m})

\* Python's seq[:count]: a negative count drops that many items from the end.
slice_to(seq, count) ==
    IF count >= 0 THEN SubSeq(seq, 1, Min(count, Len(seq)))
    ELSE SubSeq(seq, 1, Max(Len(seq) + count, 0))

get_recent_logs(count) ==
    LET log_files == slice_to(sorted_reverse(logFiles), count)
    IN [i \in 1..Len(log_files) |->
           [file |-> log_files[i], timestamp |-> log_files[i], content |-> "log"]]

log_count(arguments) ==
    IF Get(arguments, "latest_only", FALSE) THEN 1
    ELSE Min(Get(arguments, "count", DEFAULT_LOG_COUNT), MAX_LOG_COUNT)

-----------------------------------------------------------------------------
(* Requests *)

ConfirmArgs == {<<>>, [confirm |-> FALSE], [confirm |-> TRUE]}
NameArgs == {<<>>} \cup {[collection_name |-> n] : n \in {"", "A", "B"}}
LogArgs ==
    {<<>>, [latest_only |-> TRUE]}
    \cup {[count |-> c] : c \in CountVals}
    \cup {[count |-> c, latest_only |-> l] : c \in CountVals, l \in BOOLEAN}

Call(name, args) == [name |-> name, arguments |-> args]

StatusRequests == {Call("qdrant_sync_status", <<>>)}
CompareRequests ==
    {Call("qdrant_compare_collections", a) :
        a \in {<<>>} \cup {[collection_name |-> n] : n \in {""} \cup Names}}
LogRequests == {Call("qdrant_sync_logs", a) : a \in LogArgs}
SyncRequests ==
    {Call(n, a) : n \in {"qdrant_sync_all", "qdrant_sync_from_vps_all"}, a \in ConfirmArgs}
    \cup {Call(n, a) : n \in {"qdrant_sync_collection", "qdrant_sync_from_vps_collection"},
                       a \in NameArgs}
    \cup {Call(n, <<>>) : n \in {"qdrant_sync_dry_run", "qdrant_sync_from_vps_dry_run"}}

\* What the dispatcher is sent when every operation is in play.
Requests ==
    StatusRequests \cup SyncRequests
    \cup {Call("qdrant_compare_collections", a) : a \in {<<>>, [collection_name |-> "A"]}}
    \cup {Call("qdrant_sync_logs", a) : a \in {<<>>, [count |-> 0], [latest_only |-> TRUE]}}
    \cup {Call("qdrant_sync_everything", <<>>)}

\* The read-only operations whose repeated calls are compared.
ReadRequests ==
    StatusRequests
    \cup {Call("qdrant_compare_collections", a) : a \in {<<>>, [collection_name |-> "A"]}}

NoResp == [pending |-> TRUE]
NoFrame == <<>>
NoPrev == [none |-> TRUE]

-----------------------------------------------------------------------------
(* The event loop and the Sync Driver *)

\* subprocess.run does not give the loop back: while one coroutine is inside
\* run_sync_script no other coroutine is resumed and no request is picked up.
LoopNeverHeld == TRUE   \* as if the script ran in a worker thread

LoopFree == \A t \in Tasks : pc[t] # "in_driver"

Running(t) == child[t] \in {"running", "overdue"}

TimeoutError == "Sync operation timed out after 30 minutes"

\* subprocess.run(timeout=...): on expiry it kills the child and waits for it
\* before raising TimeoutExpired.
child_left_detached == "overdue"   \* the timeout reported, the child not killed

child_after_timeout == "killed"

sync_cmd(args, script_path) ==
    LET script == IF script_path = None THEN SYNC_SCRIPT ELSE script_path
    IN <<script>> \o args

completed_result(returncode) ==
    [success |-> returncode = 0, returncode |-> returncode,
     stdout |-> "out", stderr |-> "err"]

timeout_result == [success |-> FALSE, error |-> TimeoutError]

launch_failure_result == [success |-> FALSE, error |-> "FileNotFoundError"]

Return(t, payload) ==
    /\ resp' = [resp EXCEPT ![t] = payload]
    /\ pc' = [pc EXCEPT ![t] = "done"]

\* run_sync_script up to the point where subprocess.run waits for the child;
\* a launch failure returns at once.
run_sync_script(t, args, script_path) ==
    /\ calls' = [calls EXCEPT ![t] = Append(@, sync_cmd(args, script_path))]
    /\ \/ /\ child' = [child EXCEPT ![t] = "running"]
          /\ pc' = [pc EXCEPT ![t] = "in_driver"]
          /\ UNCHANGED resp
       \/ /\ Return(t, launch_failure_result)
          /\ UNCHANGED child

\* The child exits within the timeout: subprocess.run returns its result.
ChildExits(t) ==
    /\ pc[t] = "in_driver" /\ child[t] = "running"
    /\ \E returncode \in {0, 1} : Return(t, completed_result(returncode))
    /\ child' = [child EXCEPT ![t] = "exited"]
    /\ UNCHANGED <<envVars, clock, req, frame, calls, histVars>>

\* 1800 seconds pass and the child has not exited.
ChildOverdue(t) ==
    /\ pc[t] = "in_driver" /\ child[t] = "running"
    /\ child' = [child EXCEPT ![t] = "overdue"]
    /\ UNCHANGED <<envVars, clock, pc, req, frame, resp, calls, histVars>>

\* except subprocess.TimeoutExpired
SyncTimedOut(t) ==
    /\ pc[t] = "in_driver" /\ child[t] = "overdue"
    /\ child' = [child EXCEPT ![t] = child_after_timeout]
    /\ Return(t, timeout_result)
    /\ UNCHANGED <<envVars, clock, req, frame, calls, histVars>>

-----------------------------------------------------------------------------
(* call_tool: one action per branch; a branch with an await in the middle is two *)

\* A request reaches the server's stdin; the loop picks it up when it is free.
Submit(t, r) ==
    /\ pc[t] \in {"idle", "done"}
    /\ pc' = [pc EXCEPT ![t] = "submitted"]
    /\ req' = [req EXCEPT ![t] = r]
    /\ resp' = [resp EXCEPT ![t] = NoResp]
    /\ calls' = [calls EXCEPT ![t] = <<>>]
    /\ child' = [child EXCEPT ![t] = "none"]
    /\ UNCHANGED <<envVars, clock, frame, histVars>>

\* The same, remembering the call just answered when no endpoint changed during it.
SubmitAgain(t, r) ==
    /\ pc[t] \in {"idle", "done"}
    /\ pc' = [pc EXCEPT ![t] = "submitted"]
    /\ req' = [req EXCEPT ![t] = r]
    /\ resp' = [resp EXCEPT ![t] = NoResp]
    /\ calls' = [calls EXCEPT ![t] = <<>>]
    /\ child' = [child EXCEPT ![t] = "none"]
    /\ prev' = [prev EXCEPT ![t] =
                   IF pc[t] = "done" /\ clean[t]
                   THEN [req |-> req[t], resp |-> resp[t]] ELSE NoPrev]
    /\ clean' = [clean EXCEPT ![t] = TRUE]
    /\ UNCHANGED <<envVars, clock, frame>>

Handling(t, name) == pc[t] = "submitted" /\ req[t].name = name /\ LoopFree

Resumed(t, name) == pc[t] = "await_vps" /\ req[t].name = name /\ LoopFree

SyncStatusLocal(t) ==
    /\ Handling(t, "qdrant_sync_status")
    /\ frame' = [frame EXCEPT ![t] =
                    [local_status |-> check_qdrant_connectivity(SOURCE_REST_URL)]]
    /\ pc' = [pc EXCEPT ![t] = "await_vps"]
    /\ UNCHANGED <<envVars, clock, req, resp, calls, child, histVars>>

SyncStatusVps(t) ==
    /\ Resumed(t, "qdrant_sync_status")
    /\ Return(t, status_report(frame[t].local_status,
                               check_qdrant_connectivity(TARGET_REST_URL), clock))
    /\ frame' = [frame EXCEPT ![t] = NoFrame]
    /\ UNCHANGED <<envVars, clock, req, calls, child, histVars>>

confirmation_required(direction) ==
    [error |-> "Confirmation required. Set confirm=true to proceed with full sync"
               \o direction \o ".",
     hint |-> "This will sync all collections and may take 5-10 minutes."]

\* The gate left out: the script runs whatever `confirm` says.
full_sync_unguarded(t, direction, args, script_path) ==
    run_sync_script(t, args, script_path)

full_sync(t, direction, args, script_path) ==
    IF ~Get(req[t].arguments, "confirm", FALSE)
    THEN /\ Return(t, confirmation_required(direction))
         /\ UNCHANGED <<calls, child>>
    ELSE run_sync_script(t, args, script_path)

SyncAll(t) ==
    /\ Handling(t, "qdrant_sync_all")
    /\ full_sync(t, "", <<>>, None)
    /\ UNCHANGED <<envVars, clock, req, frame, histVars>>

SyncFromVpsAll(t) ==
    /\ Handling(t, "qdrant_sync_from_vps_all")
    /\ full_sync(t, " from VPS", <<>>, SYNC_SCRIPT_REVERSE)
    /\ UNCHANGED <<envVars, clock, req, frame, histVars>>

\* The direction dropped: the forward script runs for both tools.
collection_sync_forward_only(t, script_path) ==
    LET collection_name == Get(req[t].arguments, "collection_name", None) IN
    IF collection_name \in {None, ""}
    THEN /\ Return(t, [error |-> "collection_name is required"])
         /\ UNCHANGED <<calls, child>>
    ELSE run_sync_script(t, <<"--collection", collection_name>>, None)

collection_sync(t, script_path) ==
    LET collection_name == Get(req[t].arguments, "collection_name", None) IN
    IF collection_name \in {None, ""}
    THEN /\ Return(t, [error |-> "collection_name is required"])
         /\ UNCHANGED <<calls, child>>
    ELSE run_sync_script(t, <<"--collection", collection_name>>, script_path)

SyncCollection(t) ==
    /\ Handling(t, "qdrant_sync_collection")
    /\ collection_sync(t, None)
    /\ UNCHANGED <<envVars, clock, req, frame, histVars>>

SyncFromVpsCollection(t) ==
    /\ Handling(t, "qdrant_sync_from_vps_collection")
    /\ collection_sync(t, SYNC_SCRIPT_REVERSE)
    /\ UNCHANGED <<envVars, clock, req, frame, histVars>>

SyncDryRun(t) ==
    /\ Handling(t, "qdrant_sync_dry_run")
    /\ run_sync_script(t, <<"--dry-run">>, None)
    /\ UNCHANGED <<envVars, clock, req, frame, histVars>>

SyncFromVpsDryRun(t) ==
    /\ Handling(t, "qdrant_sync_from_vps_dry_run")
    /\ run_sync_script(t, <<"--dry-run">>, SYNC_SCRIPT_REVERSE)
    /\ UNCHANGED <<envVars, clock, req, frame, histVars>>

SyncLogs(t) ==
    /\ Handling(t, "qdrant_sync_logs")
    /\ Return(t, [logs |-> get_recent_logs(log_count(req[t].arguments))])
    /\ UNCHANGED <<envVars, clock, req, frame, calls, child, histVars>>

compare_scope(arguments) ==
    LET collection_name == Get(arguments, "collection_name", None)
    IN IF collection_name \in {None, ""} THEN None ELSE collection_name

CompareLocal(t) ==
    /\ Handling(t, "qdrant_compare_collections")
    /\ LET collection_name == compare_scope(req[t].arguments) IN
       frame' = [frame EXCEPT ![t] =
           IF collection_name # None
           THEN [local_info |-> get_collection_info(SOURCE_REST_URL, collection_name)]
           ELSE [local_collections |-> get_all_collections_with_counts(SOURCE_REST_URL)]]
    /\ pc' = [pc EXCEPT ![t] = "await_vps"]
    /\ UNCHANGED <<envVars, clock, req, resp, calls, child, histVars>>

CompareVps(t) ==
    /\ Resumed(t, "qdrant_compare_collections")
    /\ LET collection_name == compare_scope(req[t].arguments) IN
       Return(t,
           IF collection_name # None
           THEN compare_one(collection_name, frame[t].local_info,
                            get_collection_info(TARGET_REST_URL, collection_name))
           ELSE compare_all(frame[t].local_collections,
                            get_all_collections_with_counts(TARGET_REST_URL), clock))
    /\ frame' = [frame EXCEPT ![t] = NoFrame]
    /\ UNCHANGED <<envVars, clock, req, calls, child, histVars>>

ToolNames ==
    {"qdrant_sync_status", "qdrant_sync_all", "qdrant_sync_collection",
     "qdrant_sync_dry_run", "qdrant_sync_logs", "qdrant_compare_collections",
     "qdrant_sync_from_vps_all", "qdrant_sync_from_vps_collection",
     "qdrant_sync_from_vps_dry_run"}

UnknownTool(t) ==
    /\ pc[t] = "submitted" /\ req[t].name \notin ToolNames /\ LoopFree
    /\ Return(t, [error |-> "Unknown tool: " \o req[t].name])
    /\ UNCHANGED <<envVars, clock, req, frame, calls, child, histVars>>

-----------------------------------------------------------------------------
(* The world around the server *)

\* The quiet period ends: no call made so far can be compared with a later one.
EndpointChanged ==
    /\ prev' = [t \in Tasks |-> NoPrev]
    /\ clean' = [t \in Tasks |-> FALSE]

\* An endpoint starts or stops answering, or answers GET /collections with an error.
ConnectivityChange(url, c) ==
    /\ qdrant[url].conn # c
    /\ qdrant' = [qdrant EXCEPT ![url].conn = c]
    /\ EndpointChanged
    /\ UNCHANGED <<logFiles, clock, pc, req, frame, resp, calls, child>>

\* A collection is created, dropped, written to, or its stat call starts failing.
StoreWrite(url, name, c) ==
    /\ qdrant[url].colls[name] # c
    /\ qdrant' = [qdrant EXCEPT ![url].colls[name] = c]
    /\ EndpointChanged
    /\ UNCHANGED <<logFiles, clock, pc, req, frame, resp, calls, child>>

\* A run of a sync script leaves a new log file, named after a later time.
LogWritten ==
    /\ Cardinality(logFiles) < MaxLogFiles
    /\ logFiles' = logFiles \cup {Cardinality(logFiles) + 1}
    /\ UNCHANGED <<qdrant, clock, pc, req, frame, resp, calls, child, histVars>>

Tick ==
    /\ clock < MaxClock
    /\ clock' = clock + 1
    /\ UNCHANGED <<envVars, pc, req, frame, resp, calls, child, histVars>>

-----------------------------------------------------------------------------
(* Specifications *)

\* Spec 8.7's stores: local {A:10, B:5}, remote {A:10, C:3}, both connected.
ScenarioStores ==
    [url \in Urls |->
        [conn |-> "ok",
         colls |-> IF url = SOURCE_REST_URL
                   THEN [n \in Names |-> CASE n = "A" -> Holding(10)
                                           [] n = "B" -> Holding(5)
                                           [] OTHER -> Absent]
                   ELSE [n \in Names |-> CASE n = "A" -> Holding(10)
                                           [] n = "C" -> Holding(3)
                                           [] OTHER -> Absent]]]

InitServer ==
    /\ clock = 0
    /\ pc = [t \in Tasks |-> "idle"]
    /\ req = [t \in Tasks |-> Call("none", <<>>)]
    /\ frame = [t \in Tasks |-> NoFrame]
    /\ resp = [t \in Tasks |-> NoResp]
    /\ calls = [t \in Tasks |-> <<>>]
    /\ child = [t \in Tasks |-> "none"]
    /\ prev = [t \in Tasks |-> NoPrev]
    /\ clean = [t \in Tasks |-> TRUE]

Init ==
    /\ qdrant = ScenarioStores
    /\ logFiles = 1..3
    /\ InitServer

\* Every operation, two requests at a time.
Next ==
    \/ \E t \in Tasks, r \in Requests : Submit(t, r)
    \/ \E t \in Tasks : SyncStatusLocal(t)
    \/ \E t \in Tasks : SyncStatusVps(t)
    \/ \E t \in Tasks : SyncAll(t)
    \/ \E t \in Tasks : SyncFromVpsAll(t)
    \/ \E t \in Tasks : SyncCollection(t)
    \/ \E t \in Tasks : SyncFromVpsCollection(t)
    \/ \E t \in Tasks : SyncDryRun(t)
    \/ \E t \in Tasks : SyncFromVpsDryRun(t)
    \/ \E t \in Tasks : SyncLogs(t)
    \/ \E t \in Tasks : CompareLocal(t)
    \/ \E t \in Tasks : CompareVps(t)
    \/ \E t \in Tasks : UnknownTool(t)
    \/ \E t \in Tasks : ChildExits(t)
    \/ \E t \in Tasks : ChildOverdue(t)
    \/ \E t \in Tasks : SyncTimedOut(t)
    \/ Tick

Spec == Init /\ [][Next]_vars

\* The Reconciliation Engine alone: one request at a time against every pair of
\* endpoints.  What an endpoint that does not answer holds cannot be seen, so one
\* content stands for all of them.
InitCompare ==
    /\ qdrant \in [Urls -> Endpoints]
    /\ \A url \in Urls :
           qdrant[url].conn = "down" => qdrant[url].colls = [n \in Names |-> Absent]
    /\ logFiles = {}
    /\ InitServer

NextCompare ==
    \/ \E r \in ReadRequests : Submit("t1", r)
    \/ SyncStatusLocal("t1")
    \/ SyncStatusVps("t1")
    \/ CompareLocal("t1")
    \/ CompareVps("t1")

SpecCompare == InitCompare /\ [][NextCompare]_vars

\* Repeated read-only calls while the endpoints change and the clock runs.
NextIdem ==
    \/ \E r \in ReadRequests : SubmitAgain("t1", r)
    \/ SyncStatusLocal("t1")
    \/ SyncStatusVps("t1")
    \/ CompareLocal("t1")
    \/ CompareVps("t1")
    \/ \E url \in Urls, c \in ConnStates : ConnectivityChange(url, c)
    \/ \E url \in Urls, n \in MutableNames, c \in CollStates : StoreWrite(url, n, c)
    \/ Tick

SpecIdem == Init /\ [][NextIdem]_vars

\* The Log Reader: every `count` against every number of log files.
InitLogs ==
    /\ qdrant = ScenarioStores
    /\ logFiles = {}
    /\ InitServer

NextLogs ==
    \/ \E r \in LogRequests : Submit("t1", r)
    \/ SyncLogs("t1")
    \/ LogWritten

SpecLogs == InitLogs /\ [][NextLogs]_vars

-----------------------------------------------------------------------------
(* Properties *)

FullSyncTools == {"qdrant_sync_all", "qdrant_sync_from_vps_all"}
CollectionTools == {"qdrant_sync_collection", "qdrant_sync_from_vps_collection"}
ForwardTools == {"qdrant_sync_all", "qdrant_sync_collection", "qdrant_sync_dry_run"}

Confirmed(t) ==
    /\ req[t].name \in FullSyncTools
    /\ "confirm" \in DOMAIN req[t].arguments
    /\ req[t].arguments.confirm = TRUE

Unconfirmed(t) == req[t].name \in FullSyncTools /\ ~Confirmed(t)

Named(t) ==
    /\ "collection_name" \in DOMAIN req[t].arguments
    /\ req[t].arguments.collection_name # ""

Answered(t) == pc[t] = "done"

ScriptOf(name) == IF name \in ForwardTools THEN SYNC_SCRIPT ELSE SYNC_SCRIPT_REVERSE

AnsweredCompareAll(t) ==
    /\ Answered(t)
    /\ req[t].name = "qdrant_compare_collections"
    /\ ~Named(t)

AnsweredStatus(t) == Answered(t) /\ req[t].name = "qdrant_sync_status"

Entries(t) == resp[t].collections

RECURSIVE SumOf(_, _)
SumOf(entries, field) ==
    IF entries = <<>> THEN 0 ELSE Head(entries)[field] + SumOf(Tail(entries), field)

\* C1: a full sync (either direction) whose `confirm` is absent or false never
\* reaches run_sync_script: no command is run, no child is launched, and the
\* answer carries both an `error` and a `hint`, whatever was called before.
C1_ConfirmationGate ==
    \A t \in Tasks :
        Unconfirmed(t) =>
            /\ calls[t] = <<>>
            /\ child[t] = "none"
            /\ pc[t] # "in_driver"
            /\ Answered(t) => {"error", "hint"} \subseteq DOMAIN resp[t]

C1_Witness ==
    \E t, u \in Tasks :
        /\ Answered(t) /\ req[t] = Call("qdrant_sync_all", <<>>)
        /\ Answered(u) /\ req[u] = Call("qdrant_sync_from_vps_all", [confirm |-> FALSE])
        /\ "hint" \in DOMAIN resp[t] /\ "hint" \in DOMAIN resp[u]


\* C2: in every entry compare(all) returns, over every pair of inventories,
\* in_sync implies difference = 0 and neither local_only nor vps_only.
C2_InSyncMeansEqualAndPresent ==
    \A t \in Tasks :
        AnsweredCompareAll(t) =>
            \A i \in DOMAIN Entries(t) :
                Entries(t)[i].in_sync =>
                    /\ Entries(t)[i].difference = 0
                    /\ ~Entries(t)[i].local_only
                    /\ ~Entries(t)[i].vps_only

\* An answer with one entry in sync and another, equal in points, that is not.
C2_Witness ==
    \E t \in Tasks :
        /\ AnsweredCompareAll(t)
        /\ \E i, j \in DOMAIN Entries(t) :
               /\ Entries(t)[i].in_sync
               /\ ~Entries(t)[j].in_sync /\ Entries(t)[j].difference = 0

\* C3: in every answer of compare(all) the summary's total_difference is
\* total_local_points - total_vps_points, the totals are the sums of the entries'
\* local and remote point counts, and out_of_sync is the number of entries that
\* are not in_sync.
C3_SummaryAddsUp ==
    \A t \in Tasks :
        AnsweredCompareAll(t) =>
            LET summary == resp[t].summary IN
            /\ summary.total_local_points = SumOf(Entries(t), "local_points")
            /\ summary.total_vps_points = SumOf(Entries(t), "vps_points")
            /\ summary.total_difference =
                   summary.total_local_points - summary.total_vps_points
            /\ summary.out_of_sync =
                   Cardinality({i \in DOMAIN Entries(t) : ~Entries(t)[i].in_sync})

C3_Witness ==
    \E t \in Tasks :
        /\ AnsweredCompareAll(t)
        /\ Len(Entries(t)) = 3
        /\ resp[t].summary.out_of_sync = 2
        /\ resp[t].summary.total_difference < 0
        /\ resp[t].summary.total_vps_points > 0 /\ resp[t].summary.total_local_points > 0

\* The entries of compare(all) are A, B, C in this order, with these fields.
ScenarioAnswer(t, b_local_only, b_vps_only, c_local_only, c_vps_only) ==
    /\ Len(Entries(t)) = 3
    /\ Entries(t)[1].name = "A" /\ Entries(t)[1].in_sync /\ Entries(t)[1].difference = 0
    /\ Entries(t)[2].name = "B" /\ Entries(t)[2].difference = 5
    /\ Entries(t)[2].local_only = b_local_only /\ Entries(t)[2].vps_only = b_vps_only
    /\ Entries(t)[3].name = "C" /\ Entries(t)[3].difference = 0 - 3
    /\ Entries(t)[3].local_only = c_local_only /\ Entries(t)[3].vps_only = c_vps_only
    /\ resp[t].summary.total_collections = 3
    /\ resp[t].summary.out_of_sync = 2
    /\ resp[t].summary.total_difference = 2

\* C4 as stated: with local {A:10, B:5} and remote {A:10, C:3}, both connected,
\* compare(all) answers A in sync, B with local_only and remote_only both true
\* (difference 5), C with local_only true (difference -3), and the summary 3/2/2.
C4_ScenarioAsStated ==
    \A t \in Tasks :
        AnsweredCompareAll(t) /\ qdrant = ScenarioStores =>
            \E c_vps_only \in BOOLEAN : ScenarioAnswer(t, TRUE, TRUE, TRUE, c_vps_only)

\* C4 amended: in that scenario B (local only) has local_only = true and
\* vps_only = false, C (remote only) has local_only = false and vps_only = true;
\* the order, the differences and the summary are as stated.
C4_Scenario ==
    \A t \in Tasks :
        AnsweredCompareAll(t) /\ qdrant = ScenarioStores =>
            ScenarioAnswer(t, TRUE, FALSE, FALSE, TRUE)

C4_Witness ==
    \E t \in Tasks :
        /\ AnsweredCompareAll(t) /\ qdrant = ScenarioStores
        /\ Len(Entries(t)) = 3 /\ Entries(t)[2].difference = 5

\* C5: with the remote endpoint not connected and the local one connected,
\* status answers sync_ready = false, and compare(all) sees no remote collection:
\* every collection the local endpoint lists is an entry with local_only = true,
\* in_sync = false and difference equal to its local point count (what the
\* collection holds; 0 when its stat call failed).
C5_RemoteUnreachable ==
    \A t \in Tasks :
        (qdrant[TARGET_REST_URL].conn # "ok" /\ qdrant[SOURCE_REST_URL].conn = "ok") =>
            /\ AnsweredStatus(t) => resp[t].sync_ready = FALSE
            /\ AnsweredCompareAll(t) =>
                   /\ resp[t].summary.vps_collections = 0
                   /\ {Entries(t)[i].name : i \in DOMAIN Entries(t)} =
                          {n \in Names : qdrant[SOURCE_REST_URL].colls[n].kind # "absent"}
                   /\ \A i \in DOMAIN Entries(t) :
                          LET e == Entries(t)[i]
                              held == qdrant[SOURCE_REST_URL].colls[e.name]
                          IN /\ e.local_only /\ ~e.in_sync
                             /\ e.difference = e.local_points
                             /\ e.difference = IF held.kind = "ok" THEN held.points ELSE 0

\* The remote endpoint is down and holds nothing the server can see; the local
\* one lists three collections, one of them empty.
C5_Witness ==
    \E t \in Tasks :
        /\ qdrant[TARGET_REST_URL].conn = "down" /\ qdrant[SOURCE_REST_URL].conn = "ok"
        /\ AnsweredCompareAll(t)
        /\ Len(Entries(t)) = 3
        /\ Entries(t)[1].difference = 10 /\ Entries(t)[2].difference = 0
        /\ \A i \in 1..3 : Entries(t)[i].local_only


\* C6: whatever integer `count` qdrant_sync_logs is given (zero, negative, above
\* 10), the count handed to get_recent_logs is within 1..10: the answer holds at
\* most 10 log files, at least 1 when a log file exists, and they are the first
\* ones in descending file-name order.
C6_CountClamped ==
    [][\A t \in Tasks :
          (req[t].name = "qdrant_sync_logs" /\ pc[t] = "submitted" /\ pc'[t] = "done") =>
              LET logs == resp'[t].logs IN
              /\ Len(logs) <= 10
              /\ logFiles # {} => Len(logs) >= 1
              /\ \A i \in DOMAIN logs :
                     /\ logs[i].file \in logFiles
                     /\ Cardinality({f \in logFiles : f > logs[i].file}) = i - 1]_vars


\* C7: a single-collection sync (either direction) whose collection_name is
\* absent or empty is answered with an `error` payload and never reaches
\* run_sync_script; with a name it runs, exactly once, the script of its own
\* direction with the two arguments --collection and the name.
C7_CollectionSync ==
    \A t \in Tasks :
        req[t].name \in CollectionTools =>
            /\ pc[t] = "submitted" => calls[t] = <<>>
            /\ (pc[t] \in {"in_driver", "done"} /\ Named(t)) =>
                   calls[t] = << <<ScriptOf(req[t].name), "--collection",
                                   req[t].arguments.collection_name>> >>
            /\ ~Named(t) =>
                   /\ calls[t] = <<>> /\ child[t] = "none" /\ pc[t] # "in_driver"
                   /\ Answered(t) => "error" \in DOMAIN resp[t]

C7_Witness ==
    \E t, u \in Tasks :
        /\ Answered(t) /\ req[t].name = "qdrant_sync_from_vps_collection" /\ Named(t)
        /\ Len(calls[t]) = 1 /\ child[t] = "exited"
        /\ Answered(u) /\ req[u].name = "qdrant_sync_collection" /\ ~Named(u)
        /\ "error" \in DOMAIN resp[u]

\* C8: when the sync script has not exited within the timeout, run_sync_script
\* returns success = false with the timeout error and no exit code, and once it
\* has returned the child is no longer running.
C8_TimeoutKillsChild ==
    \A t \in Tasks :
        (Answered(t) /\ child[t] \in {"overdue", "killed"}) =>
            /\ resp[t].success = FALSE
            /\ "error" \in DOMAIN resp[t] /\ resp[t].error = TimeoutError
            /\ "returncode" \notin DOMAIN resp[t]
            /\ ~Running(t)

C8_Witness ==
    \E t \in Tasks :
        /\ Answered(t) /\ child[t] = "killed"
        /\ req[t].name = "qdrant_sync_all" /\ resp[t].error = TimeoutError

\* C10 as stated: nothing keeps a second full sync from starting while a first
\* one is in flight, so two sync children can run at once: a confirmed full
\* sync that has been submitted can always be started.
C10_SyncsInterleaveFreely ==
    \A t \in Tasks :
        (pc[t] = "submitted" /\ Confirmed(t)) =>
            ENABLED (SyncAll(t) \/ SyncFromVpsAll(t))

\* C10 amended: run_sync_script blocks the event loop until its child has exited
\* or been killed, so a second request is not started meanwhile and at most one
\* sync child is in flight at any time.
C10_OneSyncAtATime ==
    /\ Cardinality({t \in Tasks : Running(t)}) <= 1
    /\ \A t, u \in Tasks : (Running(t) /\ u # t) => pc[u] # "in_driver"

\* One full sync is in flight while a second confirmed one waits to be picked up.
C10_Witness ==
    \E t, u \in Tasks :
        /\ Running(t) /\ Confirmed(t)
        /\ pc[u] = "submitted" /\ Confirmed(u)


Repeated(t) == Answered(t) /\ prev[t] # NoPrev /\ prev[t].req = req[t]

WithoutTimestamp(report) == [k \in DOMAIN report \ {"timestamp"} |-> report[k]]

\* A step of the handler of a read-only request leaves the endpoints, the log
\* directory, the Sync Driver and every other request alone.
ReadOnlyStep ==
    \A t \in Tasks :
        (req[t] \in ReadRequests /\ pc[t] \in {"submitted", "await_vps"} /\ pc'[t] # pc[t]) =>
            /\ UNCHANGED <<qdrant, logFiles, calls, child, req>>
            /\ \A u \in Tasks \ {t} :
                   pc'[u] = pc[u] /\ frame'[u] = frame[u] /\ resp'[u] = resp[u]

\* C9 as stated: status, or compare with the same scope, called twice with no
\* store mutation and no connectivity change in between answers the same report.
C9_SameReport ==
    \A t \in Tasks : Repeated(t) => resp[t] = prev[t].resp

\* C9 amended: the two reports are the same but for their `timestamp`, which is
\* the time of each call (compare with one collection carries none and is the
\* same throughout), and neither call changes the stores or the server.
C9_SameReportButTimestamp ==
    /\ [](\A t \in Tasks :
             Repeated(t) => WithoutTimestamp(resp[t]) = WithoutTimestamp(prev[t].resp))
    /\ [][ReadOnlyStep]_vars

\* The second of two status calls made while nothing changed, at a later time,
\* with the remote endpoint not answering.
C9_Witness ==
    \E t \in Tasks :
        /\ Repeated(t) /\ req[t].name = "qdrant_sync_status"
        /\ resp[t].timestamp > prev[t].resp.timestamp
        /\ resp[t].vps.status = "unreachable"


OtherUrl(url) == IF url = SOURCE_REST_URL THEN TARGET_REST_URL ELSE SOURCE_REST_URL

\* The collection is in the endpoint's inventory.
Listed(url, n) == qdrant[url].conn = "ok" /\ qdrant[url].colls[n].kind # "absent"

\* The collection is in the endpoint's inventory and its stat call fails.
ListedStatFails(url, n) == qdrant[url].conn = "ok" /\ qdrant[url].colls[n].kind = "fault"

\* The stat call for the collection fails: no answer, or an answer that is not 200.
StatFails(url, n) == qdrant[url].conn = "down" \/ qdrant[url].colls[n].kind # "ok"

\* What an entry of compare(all) says of one side.
SidePoints(e, url) == IF url = SOURCE_REST_URL THEN e.local_points ELSE e.vps_points

SideMissing(e, url) == IF url = SOURCE_REST_URL THEN e.vps_only ELSE e.local_only

AnsweredCompareOne(t) ==
    /\ Answered(t)
    /\ req[t].name = "qdrant_compare_collections"
    /\ Named(t)

SideInfo(t, url) == IF url = SOURCE_REST_URL THEN resp[t].local ELSE resp[t].vps

\* C11: a stat call that fails on one side, for a collection that side lists,
\* counts as 0 points, is not flagged missing, and leaves no error field in the
\* entry of compare(all); the entry is in_sync with difference 0 exactly when the
\* other side lists the collection and counts 0 points for it too.  With one
\* collection as scope, a failed stat (or a collection the side does not have)
\* counts as 0 as well, so the answer is in_sync with difference 0 whenever the
\* other side counts 0: empty, failing, or absent there too.
C11_FailedStatCountsAsZero ==
    \A t \in Tasks :
        /\ AnsweredCompareAll(t) =>
               \A url \in Urls, n \in Names :
                   ListedStatFails(url, n) =>
                       \E i \in DOMAIN Entries(t) :
                           LET e == Entries(t)[i] IN
                           /\ e.name = n
                           /\ SidePoints(e, url) = 0
                           /\ ~SideMissing(e, url)
                           /\ "error" \notin DOMAIN e
                           /\ e.in_sync <=>
                                  /\ Listed(OtherUrl(url), n)
                                  /\ SidePoints(e, OtherUrl(url)) = 0
                           /\ e.in_sync => e.difference = 0
                           /\ (Listed(OtherUrl(url), n) /\ ~StatFails(OtherUrl(url), n)) =>
                                  SidePoints(e, OtherUrl(url)) =
                                      qdrant[OtherUrl(url)].colls[n].points
        /\ AnsweredCompareOne(t) =>
               LET n == req[t].arguments.collection_name IN
               \A url \in Urls :
                   StatFails(url, n) =>
                       /\ "points_count" \notin DOMAIN SideInfo(t, url)
                       /\ "missing" \notin DOMAIN SideInfo(t, url)
                       /\ resp[t].in_sync <=>
                              \/ StatFails(OtherUrl(url), n)
                              \/ qdrant[OtherUrl(url)].colls[n].points = 0
                       /\ resp[t].in_sync <=> resp[t].difference = 0

\* Local lists A but its stat call fails; the remote holds A with no points:
\* compare(all) reports A in sync.
C11_Witness ==
    \E t \in Tasks :
        /\ AnsweredCompareAll(t)
        /\ ListedStatFails(SOURCE_REST_URL, "A")
        /\ qdrant[TARGET_REST_URL].conn = "ok"
        /\ qdrant[TARGET_REST_URL].colls["A"] = Holding(0)
        /\ \E i \in DOMAIN Entries(t) :
               /\ Entries(t)[i].name = "A"
               /\ Entries(t)[i].in_sync /\ Entries(t)[i].difference = 0

====
